---- MODULE Spec2Model ----
(***************************************************************************)
(* Model of tau2's EnvironmentEvaluator.calculate_reward                   *)
(* (src/src/tau2/evaluator/evaluator_env.py) together with the module      *)
(* level Logfire flag it reads (src/src/tau2/logfire_setup.py).            *)
(*                                                                         *)
(* The domain environment (tau2.environment.environment.Environment) is    *)
(* not part of the sources at hand; it is modelled from the Environment    *)
(* Contract of the specification (sections 2, 6 and 7): a two-partition    *)
(* database, tool calls attributed to a requestor, digests, snapshots and  *)
(* declarative assertions.                                                 *)
(*                                                                         *)
(* Optional values (Python None) are sets of at most one element:          *)
(* None is {} and a present value x is {x}.                                *)
(***************************************************************************)
EXTENDS Integers, Sequences, FiniteSets, TLC

\* ------------------------------------------------------------- bounds
\* Size of an evaluation's input: golden actions, env assertions and
\* trajectory messages, counted together.
MaxSize == 2
\* The same, for the inputs given to two invocations.
TwiceSize == 1
ParSize == 1

\* ------------------------------------------------------------- optionals
None == {}
Some(x) == {x}
IsNone(o) == o = {}
The(o) == CHOOSE x \in o : TRUE
\* Python's `o or []` on an optional list: None and [] both give [].
OrEmpty(o) == IF o = {} THEN << >> ELSE The(o)

SeqsUpTo(S, n) == UNION {[1..k -> S] : k \in 0..n}

\* ------------------------------------------------------------- data model
\* RewardType members used by the evaluator and the third kind a task may name.
DB == "DB"
ENV_ASSERTION == "ENV_ASSERTION"
COMMUNICATE == "COMMUNICATE"
RewardTypes == {DB, ENV_ASSERTION, COMMUNICATE}
\* The reward bases tasks are given.
RewardBases ==
    {{}, {DB}, {ENV_ASSERTION}, {DB, ENV_ASSERTION}, {DB, COMMUNICATE},
     {DB, ENV_ASSERTION, COMMUNICATE}}

\* Tool calls / canonical actions: name, requestor, arguments.
Flights == {"F1"}
Book(f) == [name |-> "book_flight", requestor |-> "assistant", arguments |-> f]
Toggle == [name |-> "toggle_data", requestor |-> "user", arguments |-> "-"]
ToggleByAgent == [name |-> "toggle_data", requestor |-> "assistant", arguments |-> "-"]
Unknown == [name |-> "no_such_tool", requestor |-> "assistant", arguments |-> "-"]
Calls == {Book(f) : f \in Flights} \cup {Toggle, ToggleByAgent, Unknown}

\* Messages of a trajectory: assistant / user messages carry tool calls,
\* tool messages carry none.
Msg(role, calls) == [role |-> role, tool_calls |-> calls]
CallMsg(c) == Msg(c.requestor, <<c>>)
ToolMsg == Msg("tool", << >>)
Messages == {CallMsg(c) : c \in Calls \ {Unknown}} \cup {ToolMsg}

\* Declarative assertions: a named environment function and the expected value.
Assertion(fn, arg, val) == [func_name |-> fn, arguments |-> arg, assert_value |-> val]
Assertions ==
    {Assertion("assert_booked", f, TRUE) : f \in Flights}
        \cup {Assertion("no_such_check", "-", TRUE)}

\* ------------------------------------------------------------- environment contract
\* The two ownership partitions.  `writes` and `taps` are volatile fields
\* (they count mutations) that the digests leave out.
EmptyAgentDb == [booked |-> {}, writes |-> 0]
EmptyUserDb == [data_on |-> FALSE, taps |-> 0]

\* initialization_data replaces the default databases.
SeedData == [agent |-> [booked |-> {"F1"}, writes |-> 1], user |-> [data_on |-> TRUE, taps |-> 0]]

\* construct(solo_mode): a fresh handle.  `kind` is the constructor's flavour
\* of environment: "plain" or "no_tools" (its `tools` is None).
Construct(kind, solo_mode) ==
    [kind |-> kind, solo_mode |-> solo_mode, agent |-> EmptyAgentDb, user |-> EmptyUserDb,
     seeded |-> FALSE, seed_data |-> None, seed_actions |-> None, fed |-> << >>,
     tool_calls |-> << >>]

\* The constructor's default when called without solo_mode.
DefaultSoloMode == FALSE

HasTools(env) == env.kind # "no_tools"
AgentToolNames(env) ==
    IF ~HasTools(env) THEN {}
    ELSE IF env.solo_mode THEN {"book_flight", "toggle_data"} ELSE {"book_flight"}
UserToolNames == {"toggle_data"}

\* Whether the environment accepts the call (otherwise make_tool_call raises).
Accepts(env, c) ==
    IF c.requestor = "user" THEN c.name \in UserToolNames ELSE c.name \in AgentToolNames(env)

\* The effect of an accepted call on the databases.
Effect(env, c) ==
    IF c.name = "book_flight"
    THEN [env EXCEPT !.agent = [booked |-> @.booked \cup {c.arguments},
                                writes |-> (@.writes + 1) % 4]]
    ELSE [env EXCEPT !.user = [data_on |-> ~@.data_on, taps |-> (@.taps + 1) % 4]]

RECURSIVE Replay(_, _)
\* Apply a list of calls, skipping the ones the environment rejects.
Replay(env, cs) ==
    IF cs = << >> THEN env
    ELSE Replay(IF Accepts(env, Head(cs)) THEN Effect(env, Head(cs)) ELSE env, Tail(cs))

RECURSIVE CallsOf(_)
\* The tool calls carried by a message history, in order.
CallsOf(ms) ==
    IF ms = << >> THEN << >> ELSE Head(ms).tool_calls \o CallsOf(Tail(ms))

AllAccepted(env, cs) == \A i \in 1..Len(cs) : Accepts(env, cs[i])

\* set_state: seeding is rejected (an error the evaluator does not catch)
\* when the history or the initialization actions hold a call the
\* environment does not know.
SeedingOk(env, init_actions, history) ==
    AllAccepted(env, OrEmpty(init_actions) \o CallsOf(history))

SetState(env, init_data, init_actions, history) ==
    LET based == IF IsNone(init_data) THEN env
                 ELSE [env EXCEPT !.agent = The(init_data).agent, !.user = The(init_data).user]
        played == Replay(based, OrEmpty(init_actions) \o CallsOf(history))
    IN [played EXCEPT !.seeded = TRUE, !.seed_data = init_data,
                      !.seed_actions = init_actions, !.fed = history]

\* make_tool_call on the handle; the attempt is recorded either way.
MakeToolCall(env, c) ==
    LET logged == [env EXCEPT !.tool_calls = Append(@, c)]
    IN IF Accepts(env, c) THEN Effect(logged, c) ELSE logged

\* Digests: deterministic, over the semantically relevant fields only.
FlightCode(f) == IF f = "F1" THEN 1 ELSE 2
RECURSIVE SumCodes(_)
SumCodes(S) == IF S = {} THEN 0 ELSE LET f == CHOOSE x \in S : TRUE
                                     IN FlightCode(f) + SumCodes(S \ {f})
GetDbHash(env) == 7 + SumCodes(env.agent.booked)
GetUserDbHash(env) == IF env.user.data_on THEN 11 ELSE 10

\* Snapshots, for diagnostics only; taking one may fail (section 7: errors
\* during diagnostic snapshotting), which the caller sees as an exception.
GetAgentDbState(env) == env.agent
GetUserDbState(env) == env.user

\* run_env_assertion(assertion, raise_assertion_error=False): an assertion the
\* environment cannot evaluate is reported as not met.
RunEnvAssertion(env, a) ==
    IF a.func_name = "assert_booked" THEN (a.arguments \in env.agent.booked) = a.assert_value
    ELSE IF a.func_name = "assert_data_on" THEN env.user.data_on = a.assert_value
    ELSE FALSE

\* With raise_assertion_error set, an assertion that is not met (or cannot be
\* evaluated) is raised to the caller instead.
AssertionRaises(env, a, raise_assertion_error) ==
    raise_assertion_error /\ ~RunEnvAssertion(env, a)

\* ------------------------------------------------------------- program state
\* ev[e] holds the arguments, the locals and the outcome of evaluation e (one
\* call of calculate_reward); logfire_configured is logfire_setup's module
\* flag _logfire_configured.
VARIABLES ev, logfire_configured
vars == <<ev, logfire_configured>>

Evals == {1, 2}
Kinds == {"plain", "no_tools"}
\* The constructors: solo mode hands the user's tools to an agent that has tools.
Constructors == {k \in [kind : Kinds, solo_mode : BOOLEAN] : k.kind = "no_tools" => ~k.solo_mode}

\* utils.dict_diff_for_logging: None when both are None, a note when one is,
\* otherwise the fields whose values differ.
dict_diff_for_logging(expected, predicted) ==
    IF IsNone(expected) /\ IsNone(predicted) THEN None
    ELSE IF IsNone(expected) THEN Some({"expected is None"})
    ELSE IF IsNone(predicted) THEN Some({"predicted is None"})
    ELSE Some({k \in DOMAIN The(expected) : The(expected)[k] # The(predicted)[k]})

\* logfire_setup.is_logfire_enabled
is_logfire_enabled == logfire_configured

\* The locals of a call before its first statement.
Frame(task, full_trajectory, solo_mode, kind) ==
    [pc |-> "start", task |-> task, full_trajectory |-> full_trajectory,
     solo_mode |-> solo_mode, kind |-> kind,
     initialization_data |-> None, initialization_actions |-> None,
     message_history |-> << >>,
     predicted_environment |-> None, gold_environment |-> None,
     step_index |-> 0, assertion_index |-> 0,
     warnings |-> << >>, debug |-> << >>, spans |-> << >>,
     hashes |-> None, db_match |-> FALSE, db_reward |-> 0, db_check |-> None,
     env_assertion_checks |-> << >>, env_assertion_reward |-> 1,
     result |-> None, error |-> "none"]

NoTask == [evaluation_criteria |-> None, initial_state |-> None]
Idle == [Frame(NoTask, << >>, FALSE, "plain") EXCEPT !.pc = "off"]

\* RewardInfo
RewardInfo(reward, db_check, env_assertions, reward_basis, reward_breakdown, info) ==
    [reward |-> reward, db_check |-> db_check, env_assertions |-> env_assertions,
     reward_basis |-> reward_basis, reward_breakdown |-> reward_breakdown, info |-> info]
DBCheck(db_match, db_reward) == [db_match |-> db_match, db_reward |-> db_reward]

Return(s, info) == [s EXCEPT !.pc = "done", !.result = Some(info)]
Raise(s, cause) == [s EXCEPT !.pc = "raised", !.error = cause]

\* ------------------------------------------------------------- calculate_reward
\* Line 39: the task carries no criteria.
NoCriteria(task) == IsNone(task.evaluation_criteria)

TrivialCriteriaNoActions(expected_actions, env_assertions) ==
    OrEmpty(expected_actions) = << >>
TrivialCriteriaEmptyLists(expected_actions, env_assertions) ==
    expected_actions = Some(<< >>) /\ env_assertions = Some(<< >>)
\* Line 46: neither expected actions nor env assertions.
TrivialCriteria(expected_actions, env_assertions) ==
    IsNone(expected_actions) /\ IsNone(env_assertions)

\* Lines 53-72: the seed taken from the task's initial state.
SeedLocals(s) ==
    LET ist == s.task.initial_state IN
    [s EXCEPT
       !.initialization_data =
           IF ~IsNone(ist) /\ ~IsNone(The(ist).initialization_data)
           THEN The(ist).initialization_data ELSE None,
       !.initialization_actions =
           IF ~IsNone(ist) /\ ~IsNone(The(ist).initialization_actions)
           THEN The(ist).initialization_actions ELSE None,
       !.message_history =
           IF ~IsNone(ist) /\ ~IsNone(The(ist).message_history)
           THEN The(The(ist).message_history) ELSE << >>]

NoCriteriaInfoZero == RewardInfo(0, None, None, None, None, Some("No evaluation criteria"))
\* Lines 40-43.
NoCriteriaInfo == RewardInfo(1, None, None, None, None, Some("No evaluation criteria"))
\* Lines 47-51.
TrivialInfo ==
    RewardInfo(1, Some(DBCheck(TRUE, 1)), None, None, None,
               Some("No expected actions or env assertions"))

\* Lines 39-72.
Enter(s) ==
    IF NoCriteria(s.task)
    THEN Return(s, NoCriteriaInfo)
    ELSE LET c == The(s.task.evaluation_criteria) IN
         IF TrivialCriteria(c.actions, c.env_assertions)
         THEN Return(s, TrivialInfo)
         ELSE [SeedLocals(s) EXCEPT !.pc = "construct_predicted"]

\* Line 74: environment_constructor(solo_mode=solo_mode).
PredictedSoloMode(solo_mode) == solo_mode
\* Line 89: environment_constructor(), the constructor's default solo_mode.
GoldSoloMode(solo_mode) == DefaultSoloMode

\* Lines 75-79 and 90-94: the message history each environment is fed.
PredictedHistory(s) == s.full_trajectory
GoldHistoryFullTrajectory(s) == s.full_trajectory
GoldHistoryFromPredicted(s) ==
    IF ~IsNone(s.predicted_environment) /\ The(s.predicted_environment).seeded
    THEN The(s.predicted_environment).fed ELSE s.message_history
GoldHistory(s) == s.message_history

\* Line 74: the predicted environment is constructed.
NewPredicted(s) ==
    [s EXCEPT !.predicted_environment =
                  Some(Construct(s.kind, PredictedSoloMode(s.solo_mode))),
              !.pc = "seed_predicted"]

\* Lines 75-79: the predicted environment is seeded; set_state may raise.
SeededPredicted(s) ==
    LET env == The(s.predicted_environment)
    IN IF SeedingOk(env, s.initialization_actions, PredictedHistory(s))
       THEN [s EXCEPT !.predicted_environment =
                          Some(SetState(env, s.initialization_data,
                                        s.initialization_actions, PredictedHistory(s))),
                      !.pc = "construct_gold"]
       ELSE Raise(s, "seeding")

\* Line 89: the gold environment is constructed.
NewGold(s) ==
    [s EXCEPT !.gold_environment = Some(Construct(s.kind, GoldSoloMode(s.solo_mode))),
              !.pc = "seed_gold"]

\* Lines 90-94: the gold environment is seeded; set_state may raise.
SeededGold(s) ==
    LET env == The(s.gold_environment)
    IN IF SeedingOk(env, s.initialization_actions, GoldHistory(s))
       THEN [s EXCEPT !.gold_environment =
                          Some(SetState(env, s.initialization_data,
                                        s.initialization_actions, GoldHistory(s))),
                      !.pc = "golden", !.step_index = 0]
       ELSE Raise(s, "seeding")

\* Line 95: task.evaluation_criteria.actions or [].
golden_actions(s) == OrEmpty(The(s.task.evaluation_criteria).actions)
\* Line 199: task.evaluation_criteria.env_assertions or [].
env_assertions_of(s) == OrEmpty(The(s.task.evaluation_criteria).env_assertions)

OnGoldenErrorRetries(s, action) ==
    [s EXCEPT !.gold_environment = Some(MakeToolCall(The(@), action)),
              !.warnings = Append(@, action)]
OnGoldenErrorPropagates(s, action) == Raise(s, "golden_action")
\* Lines 108-111: a failed golden action is logged and the loop goes on.
OnGoldenError(s, action) == [s EXCEPT !.warnings = Append(@, action)]

LogGoldenEffectReplays(s, action, before, enabled, after_ok) ==
    IF enabled /\ ~IsNone(before) /\ HasTools(The(s.gold_environment))
    THEN [s EXCEPT !.gold_environment =
                       Some(MakeToolCall(The(s.gold_environment), action))]
    ELSE s
\* Lines 112-135: the effect of the golden action on the agent DB as a span;
\* an error in here (the snapshot after the call failing) is swallowed.
LogGoldenEffect(s, action, before, enabled, after_ok) ==
    IF enabled /\ ~IsNone(before) /\ HasTools(The(s.gold_environment))
    THEN IF ~after_ok THEN s
         ELSE [s EXCEPT !.spans = Append(@,
                 [name |-> "agent_db_updated_gold", step_index |-> s.step_index,
                  tool_name |-> action.name, tool_arguments |-> action.arguments,
                  agent_db_diff |-> dict_diff_for_logging(
                              before, Some(GetAgentDbState(The(s.gold_environment))))])]
    ELSE s

\* Lines 97-101: the snapshot before the call, taken outside any try.
SnapshotBefore(s, before_ok) ==
    IF HasTools(The(s.gold_environment)) /\ ~before_ok THEN Raise(s, "snapshot") ELSE s

\* Lines 96-135: one iteration of the loop over the golden actions.
\* before_ok / after_ok: whether the snapshot before / after the call succeeds.
GoldenIteration(s, enabled, before_ok, after_ok) ==
    LET gold == The(s.gold_environment)
        action == golden_actions(s)[s.step_index + 1]
        snapped == SnapshotBefore(s, before_ok)
    IN IF snapped.pc = "raised" THEN snapped
       ELSE LET before == IF HasTools(gold) THEN Some(GetAgentDbState(gold)) ELSE None
                called == [s EXCEPT !.gold_environment = Some(MakeToolCall(gold, action))]
                caught == IF Accepts(gold, action) THEN called
                          ELSE OnGoldenError(called, action)
            IN IF caught.pc = "raised" THEN caught
               ELSE [LogGoldenEffect(caught, action, before, enabled, after_ok)
                        EXCEPT !.step_index = @ + 1]

DbMatchEither(agent_db_match, user_db_match) == agent_db_match \/ user_db_match
\* Lines 142-149: the binary state-match outcome.
DbMatch(agent_db_match, user_db_match) == agent_db_match /\ user_db_match
DbReward(db_match) == IF db_match THEN 1 ELSE 0

MismatchLogSwapped(agent_db_match, user_db_match) ==
    (IF ~user_db_match THEN <<"DB check: agent DB mismatch">> ELSE << >>)
        \o (IF ~agent_db_match THEN <<"DB check: user DB mismatch">> ELSE << >>)
\* Lines 150-158: on a mismatch, one debug line per partition that differs.
MismatchLog(agent_db_match, user_db_match) ==
    (IF ~agent_db_match THEN <<"DB check: agent DB mismatch">> ELSE << >>)
        \o (IF ~user_db_match THEN <<"DB check: user DB mismatch">> ELSE << >>)

\* The span of lines 175-192.
DbCheckSpan(s, h) ==
    LET gold == The(s.gold_environment)
        pred == The(s.predicted_environment)
    IN [name |-> "db_check", db_match |-> s.db_match,
        agent_db_match |-> h.agent_db_match, user_db_match |-> h.user_db_match,
        agent_db_diff |-> dict_diff_for_logging(Some(GetAgentDbState(gold)),
                                                Some(GetAgentDbState(pred))),
        user_db_diff |-> dict_diff_for_logging(Some(GetUserDbState(gold)),
                                               Some(GetUserDbState(pred)))]

LogDbCheckDecides(s, h, enabled, snapshots_ok) ==
    IF enabled /\ snapshots_ok
    THEN LET span == DbCheckSpan(s, h)
             same == span.agent_db_diff = Some({}) /\ span.user_db_diff = Some({})
         IN [s EXCEPT !.spans = Append(@, span), !.db_match = same,
                      !.db_reward = IF same THEN 1 ELSE 0]
    ELSE s
\* Lines 160-194: expected vs predicted state as a span; an error in here
\* (a snapshot failing) is swallowed.
LogDbCheck(s, h, enabled, snapshots_ok) ==
    IF enabled /\ snapshots_ok
    THEN [s EXCEPT !.spans = Append(@, DbCheckSpan(s, h))]
    ELSE s

\* Lines 137-196: read the four digests and compare them.
Compare(s, enabled, snapshots_ok) ==
    LET gold == The(s.gold_environment)
        pred == The(s.predicted_environment)
        h == [agent_db_hash |-> GetDbHash(gold), user_db_hash |-> GetUserDbHash(gold),
              predicted_agent_db_hash |-> GetDbHash(pred),
              predicted_user_db_hash |-> GetUserDbHash(pred),
              agent_db_match |-> GetDbHash(gold) = GetDbHash(pred),
              user_db_match |-> GetUserDbHash(gold) = GetUserDbHash(pred)]
        db_match == DbMatch(h.agent_db_match, h.user_db_match)
        checked == [s EXCEPT !.hashes = Some(h),
                             !.db_match = db_match,
                             !.db_reward = DbReward(db_match),
                             !.debug = IF db_match THEN @
                                       ELSE @ \o MismatchLog(h.agent_db_match,
                                                             h.user_db_match)]
        logged == LogDbCheck(checked, h, enabled, snapshots_ok)
    IN [logged EXCEPT !.db_check = Some(DBCheck(logged.db_match, logged.db_reward)),
                      !.pc = "assertions"]

\* Lines 203-211: the result entry of one assertion.
EnvAssertionCheck(env, env_assertion) ==
    LET success == RunEnvAssertion(env, env_assertion)
    IN [env_assertion |-> env_assertion, met |-> success,
        reward |-> IF success THEN 1 ELSE 0]

RaiseAssertionErrorByDefault == TRUE
\* Line 205: run_env_assertion(..., raise_assertion_error=False).
raise_assertion_error == FALSE

AssertionIterationLastWins(s) ==
    LET res == EnvAssertionCheck(The(s.predicted_environment),
                                 env_assertions_of(s)[s.assertion_index + 1])
    IN [s EXCEPT !.env_assertion_checks = Append(@, res),
                 !.env_assertion_reward = res.reward,
                 !.assertion_index = @ + 1]

\* Lines 202-213: one iteration of the loop over the assertions.
AssertionIteration(s) ==
    LET env == The(s.predicted_environment)
        env_assertion == env_assertions_of(s)[s.assertion_index + 1]
        res == EnvAssertionCheck(env, env_assertion)
    IN IF AssertionRaises(env, env_assertion, raise_assertion_error)
       THEN Raise(s, "assertion")
       ELSE [s EXCEPT !.env_assertion_checks = Append(@, res),
                      !.env_assertion_reward = @ * res.reward,
                      !.assertion_index = @ + 1]

RewardBreakdownOfWholeBasis(reward_basis, db_reward, env_assertion_reward) ==
    [k \in reward_basis |->
        IF k = DB THEN db_reward
        ELSE IF k = ENV_ASSERTION THEN env_assertion_reward ELSE 1]
\* Lines 215-222: the breakdown and the scalar reward.
RewardBreakdown(reward_basis, db_reward, env_assertion_reward) ==
    [k \in reward_basis \cap {DB, ENV_ASSERTION} |->
        IF k = DB THEN db_reward ELSE env_assertion_reward]
RewardOfAllSignals(reward_basis, db_reward, env_assertion_reward) ==
    db_reward * env_assertion_reward
Reward(reward_basis, db_reward, env_assertion_reward) ==
    (IF DB \in reward_basis THEN db_reward ELSE 1)
        * (IF ENV_ASSERTION \in reward_basis THEN env_assertion_reward ELSE 1)

\* Lines 215-230.
Compose(s) ==
    LET c == The(s.task.evaluation_criteria)
    IN Return(s, RewardInfo(
           Reward(c.reward_basis, s.db_reward, s.env_assertion_reward),
           s.db_check, Some(s.env_assertion_checks), Some(c.reward_basis),
           Some(RewardBreakdown(c.reward_basis, s.db_reward, s.env_assertion_reward)),
           None))

\* ------------------------------------------------------------- inputs
\* Optional lists of at most n elements of S.
OptSeqs(S, n) == {None} \cup {Some(q) : q \in SeqsUpTo(S, n)}

OptLen(o) == Len(OrEmpty(o))

\* Criteria with at most n golden actions and env assertions together.
CriteriaSet(n) ==
    {c \in [actions : OptSeqs(Calls, n), env_assertions : OptSeqs(Assertions, n),
            reward_basis : RewardBases] :
        OptLen(c.actions) + OptLen(c.env_assertions) <= n}

Prefixes(q) == {SubSeq(q, 1, k) : k \in 0..Len(q)}

\* The full trajectory must include the message history of the initial state
\* (docstring of calculate_reward, line 34).
InitialStates(full_trajectory) ==
    {[initialization_data |-> None, initialization_actions |-> None,
      message_history |-> None]}
    \cup {[initialization_data |-> Some(SeedData),
           initialization_actions |-> Some(<<Toggle>>), message_history |-> Some(h)] :
            h \in Prefixes(full_trajectory)}

\* The tasks that, with the trajectory, make an input of size at most n.
Tasks(full_trajectory, n) ==
    {[evaluation_criteria |-> c, initial_state |-> i] :
        c \in {None} \cup {Some(x) : x \in CriteriaSet(n - Len(full_trajectory))},
        i \in {None} \cup {Some(x) : x \in InitialStates(full_trajectory)}}

Trajectories(n) == SeqsUpTo(Messages, n)

\* ------------------------------------------------------------- actions
StepSharedAccumulator(e, next) ==
    ev' = [x \in Evals |->
             IF x = e THEN next
             ELSE [ev[x] EXCEPT !.env_assertion_reward = next.env_assertion_reward]]
\* A step of call e: its arguments and locals are the call's own.
Step(e, next) == ev' = [ev EXCEPT ![e] = next]

\* Lines 39-72: the shortcuts and the seed.
Begin(e) ==
    /\ ev[e].pc = "start"
    /\ Step(e, Enter(ev[e]))
    /\ UNCHANGED logfire_configured

\* Line 74.
ConstructPredicted(e) ==
    /\ ev[e].pc = "construct_predicted"
    /\ Step(e, NewPredicted(ev[e]))
    /\ UNCHANGED logfire_configured

\* Lines 75-79 (the scan of lines 80-86 fills a list nothing reads).
SeedPredicted(e) ==
    /\ ev[e].pc = "seed_predicted"
    /\ Step(e, SeededPredicted(ev[e]))
    /\ UNCHANGED logfire_configured

\* Line 89.
ConstructGold(e) ==
    /\ ev[e].pc = "construct_gold"
    /\ Step(e, NewGold(ev[e]))
    /\ UNCHANGED logfire_configured

\* Lines 90-94.
SeedGold(e) ==
    /\ ev[e].pc = "seed_gold"
    /\ Step(e, SeededGold(ev[e]))
    /\ UNCHANGED logfire_configured

\* Lines 96-135, one golden action.
GoldenAction(e) ==
    /\ ev[e].pc = "golden"
    /\ ev[e].step_index < Len(golden_actions(ev[e]))
    /\ \E before_ok, after_ok \in BOOLEAN :
          Step(e, GoldenIteration(ev[e], is_logfire_enabled, before_ok, after_ok))
    /\ UNCHANGED logfire_configured

CompareInsideLoop(e) ==
    /\ ev[e].pc = "golden"
    /\ \E snapshots_ok \in BOOLEAN :
          Step(e, Compare(ev[e], is_logfire_enabled, snapshots_ok))
    /\ UNCHANGED logfire_configured

\* Lines 137-196, after the last golden action.
CompareEnvironments(e) ==
    /\ ev[e].pc = "golden"
    /\ ev[e].step_index = Len(golden_actions(ev[e]))
    /\ \E snapshots_ok \in BOOLEAN :
          Step(e, Compare(ev[e], is_logfire_enabled, snapshots_ok))
    /\ UNCHANGED logfire_configured

\* Lines 202-213, one assertion.
RunAssertion(e) ==
    /\ ev[e].pc = "assertions"
    /\ ev[e].assertion_index < Len(env_assertions_of(ev[e]))
    /\ Step(e, AssertionIteration(ev[e]))
    /\ UNCHANGED logfire_configured

\* Lines 215-230, after the last assertion.
ComposeReward(e) ==
    /\ ev[e].pc = "assertions"
    /\ ev[e].assertion_index = Len(env_assertions_of(ev[e]))
    /\ Step(e, Compose(ev[e]))
    /\ UNCHANGED logfire_configured

\* logfire_setup.init_logfire (lines 40-71): the value it returns is the
\* flag it leaves behind.  enabled: USE_LOGFIRE or LOGFIRE_TOKEN is set;
\* configure_ok: logfire.configure() does not raise.
init_logfire(enabled, configure_ok) ==
    IF logfire_configured THEN TRUE
    ELSE IF ~enabled THEN FALSE
    ELSE configure_ok

\* Any thread may call init_logfire at any time.
InitLogfire ==
    /\ \E enabled, configure_ok \in BOOLEAN :
          logfire_configured' = init_logfire(enabled, configure_ok)
    /\ UNCHANGED ev

Evaluate(e) ==
    \/ Begin(e)
    \/ ConstructPredicted(e)
    \/ SeedPredicted(e)
    \/ ConstructGold(e)
    \/ SeedGold(e)
    \/ GoldenAction(e)
    \/ CompareEnvironments(e)
    \/ RunAssertion(e)
    \/ ComposeReward(e)

Next == InitLogfire \/ \E e \in Evals : Evaluate(e)

\* One evaluation of any task on any trajectory.
Init ==
    /\ logfire_configured = FALSE
    /\ \E tr \in Trajectories(MaxSize), k \in Constructors :
         \E task \in Tasks(tr, MaxSize) :
            ev = [e \in Evals |->
                    IF e = 1 THEN Frame(task, tr, k.solo_mode, k.kind) ELSE Idle]

Spec == Init /\ [][Next]_vars

Finished(e) == ev[e].pc \in {"done", "raised"}

\* Two invocations with the same arguments, the second after the first.
InitTwice ==
    /\ logfire_configured = FALSE
    /\ \E tr \in Trajectories(TwiceSize), k \in Constructors :
         \E task \in Tasks(tr, TwiceSize) :
            ev = [e \in Evals |-> Frame(task, tr, k.solo_mode, k.kind)]

NextTwice == InitLogfire \/ Evaluate(1) \/ (Finished(1) /\ Evaluate(2))

SpecTwice == InitTwice /\ [][NextTwice]_vars

\* ------------------------------------------------------------- one call, start to end
RECURSIVE GoldenLoop(_)
\* Lines 96-135: the loop over the golden actions, no snapshot failing and
\* no span emitted.
GoldenLoop(s) ==
    IF s.pc = "raised" \/ s.step_index >= Len(golden_actions(s)) THEN s
    ELSE GoldenLoop(GoldenIteration(s, FALSE, TRUE, TRUE))

\* Lines 74-79: the replay of the trajectory on the predicted environment.
PredictedReplay(s) == SeededPredicted(NewPredicted(s))

\* Lines 89-135: the replay of the golden actions on the gold environment.
GoldReplay(s) ==
    LET seeded == SeededGold(NewGold(s))
    IN IF seeded.pc = "raised" THEN seeded ELSE GoldenLoop(seeded)

RECURSIVE AssertionLoop(_)
\* Lines 198-230: the loop over the assertions, then the result.
AssertionLoop(s) ==
    IF s.pc = "raised" THEN s
    ELSE IF s.assertion_index < Len(env_assertions_of(s))
    THEN AssertionLoop(AssertionIteration(s))
    ELSE Compose(s)

\* Lines 29-230: calculate_reward run on its own from its first statement to
\* its return (or to the error of a seeding), with Logfire off.
RunAlone(s) ==
    LET entered == Enter(s) IN
    IF entered.pc # "construct_predicted" THEN entered
    ELSE LET predicted == PredictedReplay(entered) IN
         IF predicted.pc = "raised" THEN predicted
         ELSE LET gold == GoldReplay(predicted) IN
              IF gold.pc = "raised" THEN gold
              ELSE AssertionLoop(Compare(gold, FALSE, TRUE))

\* ------------------------------------------------------------- the two replays in any order
\* The replays of lines 74-79 and of lines 89-135 run as two tasks of one
\* call: while pc = "replays" a step of either may come next, and the digests
\* are read once both are through.
AtReplays(s) == IF s.pc = "raised" THEN s ELSE [s EXCEPT !.pc = "replays"]
IsSeeded(env) == ~IsNone(env) /\ The(env).seeded

BeginReplays(e) ==
    /\ ev[e].pc = "start"
    /\ LET entered == Enter(ev[e])
       IN Step(e, IF entered.pc = "construct_predicted" THEN AtReplays(entered)
                  ELSE entered)
    /\ UNCHANGED logfire_configured

ParConstructPredicted(e) ==
    /\ ev[e].pc = "replays" /\ IsNone(ev[e].predicted_environment)
    /\ Step(e, AtReplays(NewPredicted(ev[e])))
    /\ UNCHANGED logfire_configured

ParSeedPredicted(e) ==
    /\ ev[e].pc = "replays" /\ ~IsNone(ev[e].predicted_environment)
    /\ ~IsSeeded(ev[e].predicted_environment)
    /\ Step(e, AtReplays(SeededPredicted(ev[e])))
    /\ UNCHANGED logfire_configured

ParConstructGold(e) ==
    /\ ev[e].pc = "replays" /\ IsNone(ev[e].gold_environment)
    /\ Step(e, AtReplays(NewGold(ev[e])))
    /\ UNCHANGED logfire_configured

ParSeedGold(e) ==
    /\ ev[e].pc = "replays" /\ ~IsNone(ev[e].gold_environment)
    /\ ~IsSeeded(ev[e].gold_environment)
    /\ Step(e, AtReplays(SeededGold(ev[e])))
    /\ UNCHANGED logfire_configured

ParGoldenAction(e) ==
    /\ ev[e].pc = "replays" /\ IsSeeded(ev[e].gold_environment)
    /\ ev[e].step_index < Len(golden_actions(ev[e]))
    /\ \E before_ok, after_ok \in BOOLEAN :
          Step(e, GoldenIteration(ev[e], is_logfire_enabled, before_ok, after_ok))
    /\ UNCHANGED logfire_configured

\* Lines 137-196, once both replays are through.
ParCompare(e) ==
    /\ ev[e].pc = "replays"
    /\ IsSeeded(ev[e].predicted_environment) /\ IsSeeded(ev[e].gold_environment)
    /\ ev[e].step_index = Len(golden_actions(ev[e]))
    /\ \E snapshots_ok \in BOOLEAN :
          Step(e, Compare(ev[e], is_logfire_enabled, snapshots_ok))
    /\ UNCHANGED logfire_configured

EvaluateInterleaved(e) ==
    \/ BeginReplays(e)
    \/ ParConstructPredicted(e)
    \/ ParSeedPredicted(e)
    \/ ParConstructGold(e)
    \/ ParSeedGold(e)
    \/ ParGoldenAction(e)
    \/ ParCompare(e)
    \/ RunAssertion(e)
    \/ ComposeReward(e)

InitInterleaved ==
    /\ logfire_configured = FALSE
    /\ \E tr \in Trajectories(ParSize), k \in Constructors :
         \E task \in Tasks(tr, ParSize) :
            ev = [e \in Evals |->
                    IF e = 1 THEN Frame(task, tr, k.solo_mode, k.kind) ELSE Idle]

NextInterleaved == InitLogfire \/ EvaluateInterleaved(1)

SpecInterleaved == InitInterleaved /\ [][NextInterleaved]_vars

\* ------------------------------------------------------------- two calls at once
\* The inputs of the concurrent calls: a task without initial state scored on
\* DB and ENV_ASSERTION, its lists present, on a trajectory of agent bookings.
BatchTrajectories(n) ==
    {tr \in Trajectories(n) : \A i \in 1..Len(tr) : tr[i].role = "assistant"
                                 /\ tr[i].tool_calls[1].name = "book_flight"}
BatchTasks(tr, n) ==
    {t \in Tasks(tr, n) :
        /\ IsNone(t.initial_state)
        /\ ~IsNone(t.evaluation_criteria) =>
              LET c == The(t.evaluation_criteria)
              IN /\ c.reward_basis = {DB, ENV_ASSERTION}
                 /\ ~IsNone(c.actions) /\ ~IsNone(c.env_assertions)
                 /\ \A i \in 1..Len(The(c.actions)) :
                        The(c.actions)[i] # ToggleByAgent}

\* Two calls, each on its own arguments, their steps interleaved at will.
InitConcurrent ==
    /\ logfire_configured = FALSE
    /\ \E tr1, tr2 \in BatchTrajectories(ParSize) :
         \E task1 \in BatchTasks(tr1, ParSize), task2 \in BatchTasks(tr2, ParSize) :
            ev = [e \in Evals |->
                    IF e = 1 THEN Frame(task1, tr1, FALSE, "plain")
                    ELSE Frame(task2, tr2, FALSE, "plain")]

SpecConcurrent == InitConcurrent /\ [][Next]_vars

\* ------------------------------------------------------------- properties
Started(e) == ev[e].pc # "off"
Done(e) == ev[e].pc = "done"
Result(e) == The(ev[e].result)
Criteria(e) == The(ev[e].task.evaluation_criteria)
HasCriteria(e) == ~IsNone(ev[e].task.evaluation_criteria)
\* The evaluation went past both shortcuts and read the digests.
Compared(e) == ~IsNone(ev[e].hashes)
Hashes(e) == The(ev[e].hashes)
\* A trajectory whose tool calls change the state of an environment.
Mutating(tr) == \E i \in 1..Len(tr) : tr[i].tool_calls # << >>
Untouched(e) ==
    /\ IsNone(ev[e].predicted_environment) /\ IsNone(ev[e].gold_environment)
    /\ IsNone(ev[e].hashes) /\ IsNone(ev[e].db_check)
    /\ ev[e].env_assertion_checks = << >>

RECURSIVE Product(_)
Product(rs) == IF rs = << >> THEN 1 ELSE Head(rs).reward * Product(Tail(rs))

\* C1: a task without evaluation criteria gets reward 1.0 whatever the
\* trajectory, and the call returns at once: no environment is constructed,
\* seeded, advanced, hashed or asserted against.
C1_NoCriteriaShortcut ==
    \A e \in Evals :
        Started(e) /\ ~HasCriteria(e) =>
            /\ ev[e].pc \in {"start", "done"}
            /\ Untouched(e)
            /\ Done(e) => Result(e).reward = 1

C1_Witness ==
    \E e \in Evals :
        /\ Done(e) /\ ~HasCriteria(e) /\ Mutating(ev[e].full_trajectory)
        /\ Result(e).reward = 1

\* C2 as claimed: criteria whose actions and env_assertions are each None or
\* an empty list give reward 1.0 and db_match = true for every trajectory.
C2_EmptyOrAbsentShortcut ==
    \A e \in Evals :
        (/\ Done(e) /\ HasCriteria(e)
         /\ OptLen(Criteria(e).actions) = 0 /\ OptLen(Criteria(e).env_assertions) = 0)
        => /\ Result(e).reward = 1
           /\ ~IsNone(Result(e).db_check)
           /\ The(Result(e).db_check).db_match

\* C2, amended: the shortcut is taken only when actions and env_assertions are
\* both None; then the reward is 1.0 and db_check is (match, 1.0) for every
\* trajectory, with no environment constructed.
C2_AbsentShortcut ==
    \A e \in Evals :
        (/\ Started(e) /\ HasCriteria(e)
         /\ IsNone(Criteria(e).actions) /\ IsNone(Criteria(e).env_assertions))
        => /\ ev[e].pc \in {"start", "done"}
           /\ Untouched(e)
           /\ Done(e) => /\ Result(e).reward = 1
                         /\ Result(e).db_check = Some(DBCheck(TRUE, 1))

C2_Witness ==
    \E e \in Evals :
        /\ Done(e) /\ HasCriteria(e)
        /\ IsNone(Criteria(e).actions) /\ IsNone(Criteria(e).env_assertions)
        /\ Mutating(ev[e].full_trajectory)
        /\ DB \in Criteria(e).reward_basis
        /\ Result(e).reward = 1

\* The result of a full evaluation (neither shortcut taken).
Full(e) == Done(e) /\ ~IsNone(Result(e).reward_basis)
DbRewardOf(e) == The(Result(e).db_check).db_reward
AssertionRewardOf(e) == Product(The(Result(e).env_assertions))

\* C3: in a full evaluation the reward is the product of exactly the signals
\* named in reward_basis: state-match alone gives db_reward whatever the
\* assertions say, both give db_reward times the assertion reward, and a
\* signal outside the basis leaves the reward alone.
C3_RewardBasisSelection ==
    \A e \in Evals :
        Full(e) =>
            LET basis == Criteria(e).reward_basis \cap {DB, ENV_ASSERTION} IN
            /\ basis = {} => Result(e).reward = 1
            /\ basis = {DB} => Result(e).reward = DbRewardOf(e)
            /\ basis = {ENV_ASSERTION} => Result(e).reward = AssertionRewardOf(e)
            /\ basis = {DB, ENV_ASSERTION} =>
                   Result(e).reward = DbRewardOf(e) * AssertionRewardOf(e)

C3_Witness ==
    \E e \in Evals :
        /\ Full(e) /\ Criteria(e).reward_basis = {DB}
        /\ AssertionRewardOf(e) = 0
        /\ Result(e).reward = 1

\* C4: the state-match outcome is binary and decided by the digests alone:
\* db_match and db_reward = 1.0 exactly when the agent digests are equal and
\* the user digests are equal, otherwise no match and 0.0.
C4_BinaryStateMatch ==
    \A e \in Evals :
        ~IsNone(ev[e].db_check) /\ Compared(e) =>
            LET both == /\ Hashes(e).agent_db_hash = Hashes(e).predicted_agent_db_hash
                        /\ Hashes(e).user_db_hash = Hashes(e).predicted_user_db_hash
            IN /\ Hashes(e).agent_db_hash = GetDbHash(The(ev[e].gold_environment))
               /\ Hashes(e).predicted_agent_db_hash
                      = GetDbHash(The(ev[e].predicted_environment))
               /\ Hashes(e).user_db_hash = GetUserDbHash(The(ev[e].gold_environment))
               /\ Hashes(e).predicted_user_db_hash
                      = GetUserDbHash(The(ev[e].predicted_environment))
               /\ The(ev[e].db_check).db_match = both
               /\ The(ev[e].db_check).db_reward = IF both THEN 1 ELSE 0
               /\ Done(e) => Result(e).db_check = ev[e].db_check

\* Only the user partition agrees: no partial credit.
C4_Witness ==
    \E e \in Evals :
        /\ Full(e) /\ Compared(e)
        /\ Hashes(e).agent_db_hash # Hashes(e).predicted_agent_db_hash
        /\ Hashes(e).user_db_hash = Hashes(e).predicted_user_db_hash
        /\ The(Result(e).db_check) = DBCheck(FALSE, 0)

\* C5: every assertion of the criteria is evaluated against the predicted
\* environment and gets its own entry, in order, also after a failure; the
\* aggregate is the product of the entries' rewards: 1.0 exactly when every
\* assertion is met (and for no assertions), else 0.0.
C5_AssertionAggregation ==
    \A e \in Evals :
        ev[e].pc \in {"assertions", "done"} /\ Compared(e) =>
            LET as == env_assertions_of(ev[e])
                cs == ev[e].env_assertion_checks
            IN /\ Len(cs) = ev[e].assertion_index
               /\ Len(cs) <= Len(as)
               /\ Done(e) => Len(cs) = Len(as) /\ Result(e).env_assertions = Some(cs)
               /\ \A i \in 1..Len(cs) :
                     /\ cs[i].env_assertion = as[i]
                     /\ cs[i].met = RunEnvAssertion(The(ev[e].predicted_environment), as[i])
                     /\ cs[i].reward = IF cs[i].met THEN 1 ELSE 0
               /\ ev[e].env_assertion_reward
                     = IF \A i \in 1..Len(cs) : cs[i].met THEN 1 ELSE 0

\* The first assertion fails, the second is still evaluated and is met.
C5_Witness ==
    \E e \in Evals :
        /\ Full(e)
        /\ Len(ev[e].env_assertion_checks) = 2
        /\ ~ev[e].env_assertion_checks[1].met
        /\ ev[e].env_assertion_checks[2].met
        /\ ev[e].env_assertion_reward = 0

\* The golden actions the gold environment rejected so far.
RECURSIVE Rejected(_, _)
Rejected(env, cs) ==
    IF cs = << >> THEN << >>
    ELSE (IF Accepts(env, Head(cs)) THEN << >> ELSE <<Head(cs)>>) \o Rejected(env, Tail(cs))

\* C6: a golden action the gold environment rejects is logged and skipped:
\* every golden action is attempted on the gold environment, in order, the
\* failures included, and no failure of a golden action makes the call raise.
C6_GoldenFaultTolerance ==
    \A e \in Evals :
        ~IsNone(ev[e].gold_environment) /\ The(ev[e].gold_environment).seeded =>
            LET gold == The(ev[e].gold_environment)
                acts == golden_actions(ev[e])
            IN /\ ev[e].error # "golden_action"
               /\ ev[e].step_index <= Len(acts)
               /\ gold.tool_calls = SubSeq(acts, 1, ev[e].step_index)
               /\ ev[e].warnings = Rejected(gold, gold.tool_calls)
               /\ ev[e].pc \in {"assertions", "done"} => gold.tool_calls = acts
               /\ ev[e].pc = "raised" => ev[e].error = "snapshot"

\* Two golden actions, the first rejected, the second applied; a result is returned.
C6_Witness ==
    \E e \in Evals :
        /\ Full(e)
        /\ Len(golden_actions(ev[e])) = 2
        /\ ev[e].warnings = <<golden_actions(ev[e])[1]>>
        /\ golden_actions(ev[e])[1] = Unknown
        /\ golden_actions(ev[e])[2] = Book("F1")
        /\ The(ev[e].gold_environment).tool_calls = golden_actions(ev[e])
        /\ "F1" \in The(ev[e].gold_environment).agent.booked

BothSeeded(e) ==
    /\ ~IsNone(ev[e].predicted_environment) /\ The(ev[e].predicted_environment).seeded
    /\ ~IsNone(ev[e].gold_environment) /\ The(ev[e].gold_environment).seeded

\* C7 as claimed: once both environments are constructed and seeded, no
\* failure of a later environment call (golden make_tool_call, state snapshot,
\* digest retrieval, assertion evaluation) aborts the evaluation.
C7_NeverAbortsOnceSeeded ==
    \A e \in Evals : BothSeeded(e) => ev[e].pc # "raised"

\* C10 as claimed: both environments are built with the caller's solo_mode
\* and seeded with the same initialization_data and initialization_actions.
C10_IdenticalConstruction ==
    \A e \in Evals :
        BothSeeded(e) =>
            LET pred == The(ev[e].predicted_environment)
                gold == The(ev[e].gold_environment)
            IN /\ pred.solo_mode = ev[e].solo_mode
               /\ gold.solo_mode = ev[e].solo_mode
               /\ pred.seed_data = gold.seed_data
               /\ pred.seed_actions = gold.seed_actions

\* C8: two invocations with the same task, trajectory and constructor return
\* the same reward and the same state-match outcome, and read the same four
\* digests, whatever the Logfire flag and the diagnostics did in between.
C8_Determinism ==
    (Done(1) /\ Done(2) /\ ev[1].task = ev[2].task
        /\ ev[1].full_trajectory = ev[2].full_trajectory
        /\ ev[1].solo_mode = ev[2].solo_mode /\ ev[1].kind = ev[2].kind)
    => /\ Result(1).reward = Result(2).reward
       /\ Result(1).db_check = Result(2).db_check
       /\ ev[1].hashes = ev[2].hashes

\* Both invocations compared a mutated state, one with Logfire off and one
\* with the db_check span emitted.
C8_Witness ==
    /\ Full(1) /\ Full(2)
    /\ Mutating(ev[1].full_trajectory)
    /\ ev[1].spans = << >> /\ ev[2].spans # << >>
    /\ Result(1).reward = Result(2).reward
    /\ Hashes(1) = Hashes(2)

AgentLine == "DB check: agent DB mismatch"
UserLine == "DB check: user DB mismatch"
Lines(q) == {q[i] : i \in 1..Len(q)}

\* C9 as claimed: with matching agent digests and differing user digests the
\* result has db_match = false, db_reward = 0.0, and its db_check reports a
\* matched boolean per partition.
C9_PerPartitionDbCheck ==
    \A e \in Evals :
        (/\ Full(e) /\ Compared(e)
         /\ Hashes(e).agent_db_hash = Hashes(e).predicted_agent_db_hash
         /\ Hashes(e).user_db_hash # Hashes(e).predicted_user_db_hash)
        => /\ The(Result(e).db_check).db_match = FALSE
           /\ The(Result(e).db_check).db_reward = 0
           /\ {"agent_db_match", "user_db_match"} \subseteq DOMAIN The(Result(e).db_check)

\* C9, amended: db_check carries the combined db_match and db_reward only;
\* which partition failed is told by the debug log, one line per partition
\* whose digests differ (and by the db_check span when one is emitted), and
\* telling it leaves the binary outcome alone.
C9_PartitionAttribution ==
    \A e \in Evals :
        ~IsNone(ev[e].db_check) /\ Compared(e) =>
            LET agent_ok == Hashes(e).agent_db_hash = Hashes(e).predicted_agent_db_hash
                user_ok == Hashes(e).user_db_hash = Hashes(e).predicted_user_db_hash
            IN /\ DOMAIN The(ev[e].db_check) = {"db_match", "db_reward"}
               /\ AgentLine \in Lines(ev[e].debug) <=> ~agent_ok
               /\ UserLine \in Lines(ev[e].debug) <=> ~user_ok
               /\ \A i \in 1..Len(ev[e].spans) :
                     ev[e].spans[i].name = "db_check" =>
                        /\ ev[e].spans[i].agent_db_match = agent_ok
                        /\ ev[e].spans[i].user_db_match = user_ok
               /\ agent_ok /\ ~user_ok =>
                     /\ The(ev[e].db_check) = DBCheck(FALSE, 0)
                     /\ ev[e].debug = <<UserLine>>
               /\ Done(e) => Result(e).db_check = ev[e].db_check

\* The user partition alone differs, with and without the span.
C9_Witness ==
    \E e \in Evals :
        /\ Full(e) /\ Compared(e)
        /\ Hashes(e).agent_db_hash = Hashes(e).predicted_agent_db_hash
        /\ Hashes(e).user_db_hash # Hashes(e).predicted_user_db_hash
        /\ ev[e].debug = <<UserLine>>
        /\ The(Result(e).db_check) = DBCheck(FALSE, 0)

\* An assertion the environment cannot evaluate.
Unevaluable(a) == a.func_name \notin {"assert_booked", "assert_data_on"}

\* C11: an assertion the environment fails to evaluate becomes an entry with
\* met = false and reward 0.0; nothing is raised to the caller, the assertions
\* after it are evaluated and a RewardInfo is returned.
C11_AssertionErrorCaptured ==
    \A e \in Evals :
        /\ ev[e].error # "assertion"
        /\ \A i \in 1..Len(ev[e].env_assertion_checks) :
              Unevaluable(ev[e].env_assertion_checks[i].env_assertion) =>
                 /\ ev[e].env_assertion_checks[i].met = FALSE
                 /\ ev[e].env_assertion_checks[i].reward = 0
        /\ Done(e) /\ ~IsNone(Result(e).env_assertions) =>
              /\ Len(The(Result(e).env_assertions)) = Len(env_assertions_of(ev[e]))
              /\ \A i \in 1..Len(env_assertions_of(ev[e])) :
                    The(Result(e).env_assertions)[i].env_assertion
                        = env_assertions_of(ev[e])[i]

\* The first assertion cannot be evaluated, the second is evaluated and met,
\* and the result is returned.
C11_Witness ==
    \E e \in Evals :
        /\ Done(e) /\ ~IsNone(Result(e).env_assertions)
        /\ Len(The(Result(e).env_assertions)) = 2
        /\ Unevaluable(The(Result(e).env_assertions)[1].env_assertion)
        /\ The(Result(e).env_assertions)[1].reward = 0
        /\ ~Unevaluable(The(Result(e).env_assertions)[2].env_assertion)
        /\ The(Result(e).env_assertions)[2].reward = 1

\* C12 as claimed: a failure of a diagnostic snapshot, of the diff or of the
\* span emission never aborts the call.
C12_DiagnosticsNeverAbort ==
    \A e \in Evals : ev[e].error # "snapshot"

\* The state-mutating calls an environment has received so far: the seeding
\* (data, actions, message history) and the tool calls made on it.
MutatingCalls(env) ==
    IF IsNone(env) THEN << >>
    ELSE <<The(env).seeded, The(env).seed_data, The(env).seed_actions,
           The(env).fed, The(env).tool_calls>>

\* C13: the Logfire sink changes nothing but the spans: two calls on the same
\* arguments, whatever the flag was during each, return the same reward,
\* db_check, assertion results and breakdown, and make the same state-mutating
\* calls on both environments.
C13_SinkHasNoEffect ==
    Done(1) /\ Done(2) =>
        /\ Result(1) = Result(2)
        /\ MutatingCalls(ev[1].gold_environment) = MutatingCalls(ev[2].gold_environment)
        /\ MutatingCalls(ev[1].predicted_environment)
               = MutatingCalls(ev[2].predicted_environment)
        /\ ev[1].gold_environment = ev[2].gold_environment
        /\ ev[1].predicted_environment = ev[2].predicted_environment

\* One call emitted no span, the other emitted the golden-action span and the
\* db_check span, on a task with a golden action.
C13_Witness ==
    /\ Done(1) /\ Done(2) /\ Full(1)
    /\ ev[1].spans = << >>
    /\ \E i \in 1..Len(ev[2].spans) : ev[2].spans[i].name = "agent_db_updated_gold"
    /\ \E i \in 1..Len(ev[2].spans) : ev[2].spans[i].name = "db_check"
    /\ The(ev[2].gold_environment).tool_calls # << >>

\* The task has one golden action, made by the agent, no assertion, and the
\* state match in its basis, and the trajectory's only tool call is that action.
SameSingleAction(e) ==
    /\ Full(e) /\ DB \in Criteria(e).reward_basis
    /\ env_assertions_of(ev[e]) = << >>
    /\ Len(golden_actions(ev[e])) = 1
    /\ golden_actions(ev[e])[1].requestor = "assistant"
    /\ CallsOf(ev[e].full_trajectory) = golden_actions(ev[e])

\* C14 as claimed: when the trajectory makes exactly the task's one golden
\* action, the agent digests agree and the reward is 1.0, in solo mode or not.
C14_SameActionScoresOne ==
    \A e \in Evals :
        SameSingleAction(e) =>
            /\ Hashes(e).agent_db_hash = Hashes(e).predicted_agent_db_hash
            /\ Result(e).reward = 1

\* The history the gold environment is to be seeded with, read off the task.
TaskHistory(e) ==
    LET ist == ev[e].task.initial_state
    IN IF IsNone(ist) THEN << >> ELSE OrEmpty(The(ist).message_history)

IsPrefix(p, q) == Len(p) <= Len(q) /\ p = SubSeq(q, 1, Len(p))

\* C15: each environment is mutated by its own replay only: the gold one is
\* fed the task's message history (nothing when there is none) and then only
\* the golden actions through make_tool_call; the predicted one is fed the
\* full trajectory, unmodified, and never receives a make_tool_call.
C15_OwnReplayOnly ==
    \A e \in Evals :
        /\ ~IsNone(ev[e].gold_environment) =>
              LET gold == The(ev[e].gold_environment)
              IN /\ gold.fed = (IF gold.seeded THEN TaskHistory(e) ELSE << >>)
                 /\ IsPrefix(gold.tool_calls, golden_actions(ev[e]))
                 /\ ~gold.seeded => gold.tool_calls = << >>
        /\ ~IsNone(ev[e].predicted_environment) =>
              LET pred == The(ev[e].predicted_environment)
              IN /\ pred.fed = (IF pred.seeded THEN ev[e].full_trajectory ELSE << >>)
                 /\ pred.tool_calls = << >>

\* A finished evaluation whose task has no message history, whose trajectory
\* makes a tool call and whose golden actions were all replayed on the gold
\* environment.
C15_Witness ==
    \E e \in Evals :
        /\ Full(e) /\ TaskHistory(e) = << >>
        /\ Mutating(ev[e].full_trajectory)
        /\ The(ev[e].predicted_environment).fed = ev[e].full_trajectory
        /\ The(ev[e].gold_environment).fed = << >>
        /\ The(ev[e].gold_environment).tool_calls = golden_actions(ev[e])
        /\ golden_actions(ev[e]) # << >>

\* The tool calls made so far on the gold environment of a frame.
GoldCalls(s) ==
    IF IsNone(s.gold_environment) THEN << >> ELSE The(s.gold_environment).tool_calls

\* C16: the golden actions are replayed one at a time in list order: every
\* step makes at most one call, the call is the action at the position the
\* loop has reached, and the loop then moves on whether the call failed or not,
\* so no action is attempted twice; the digests are read once all were tried.
C16_SequentialOnce ==
    [][\A e \in Evals :
          LET old == GoldCalls(ev[e])
              new == GoldCalls(ev'[e])
          IN /\ \/ new = old
                \/ /\ Len(old) = ev[e].step_index
                   /\ Len(old) < Len(golden_actions(ev[e]))
                   /\ new = Append(old, golden_actions(ev[e])[Len(old) + 1])
                   /\ ev'[e].step_index = ev[e].step_index + 1
             /\ ~IsNone(ev'[e].hashes) => new = golden_actions(ev'[e])]_vars

\* Two golden actions, the first rejected and the second accepted, each
\* attempted once, in order.
C16_Witness ==
    \E e \in Evals :
        /\ Full(e)
        /\ Len(golden_actions(ev[e])) = 2
        /\ GoldCalls(ev[e]) = golden_actions(ev[e])
        /\ ev[e].warnings = <<golden_actions(ev[e])[1]>>
        /\ ev[e].step_index = 2

\* The predicted environment of a frame is seeded with the full trajectory.
PredictedSeeded(s) ==
    /\ ~IsNone(s.predicted_environment)
    /\ The(s.predicted_environment).seeded
    /\ The(s.predicted_environment).fed = s.full_trajectory

\* C17: the phases are ordered.  The digests are read only once the predicted
\* environment is seeded with the full trajectory and every golden action has
\* been attempted; an assertion is evaluated only after the digests were read,
\* and changes neither them, nor the state-match outcome, nor an environment;
\* the reward is composed only after every assertion was evaluated.
C17_PhaseOrder ==
    [][\A e \in Evals :
          LET s == ev[e]
              t == ev'[e]
          IN /\ IsNone(s.hashes) /\ ~IsNone(t.hashes) =>
                   /\ PredictedSeeded(s)
                   /\ ~IsNone(s.gold_environment) /\ The(s.gold_environment).seeded
                   /\ GoldCalls(s) = golden_actions(s)
                   /\ s.env_assertion_checks = << >>
                   /\ t.env_assertion_checks = << >>
             /\ t.env_assertion_checks # s.env_assertion_checks =>
                   /\ ~IsNone(s.hashes) /\ ~IsNone(s.db_check)
                   /\ t.hashes = s.hashes /\ t.db_check = s.db_check
                   /\ t.db_match = s.db_match /\ t.db_reward = s.db_reward
                   /\ t.gold_environment = s.gold_environment
                   /\ t.predicted_environment = s.predicted_environment
                   /\ IsNone(t.result)
             /\ IsNone(s.result) /\ ~IsNone(t.result)
                  /\ ~IsNone(The(t.result).reward_basis) =>
                   /\ ~IsNone(s.hashes)
                   /\ Len(s.env_assertion_checks) = Len(env_assertions_of(s))
                   /\ The(t.result).env_assertions = Some(s.env_assertion_checks)
                   /\ The(t.result).db_check = s.db_check]_vars

\* A finished evaluation that went through all three phases: a golden action
\* replayed, digests that differ, and an assertion evaluated afterwards and met.
C17_Witness ==
    \E e \in Evals :
        /\ Full(e)
        /\ golden_actions(ev[e]) # << >>
        /\ Len(ev[e].env_assertion_checks) = 1
        /\ ev[e].env_assertion_checks[1].met
        /\ ~The(ev[e].db_check).db_match

RECURSIVE ProductOver(_, _)
\* The product of the values of a breakdown over a set of its keys.
ProductOver(f, keys) ==
    IF keys = {} THEN 1
    ELSE LET k == CHOOSE x \in keys : TRUE
         IN f[k] * ProductOver(f, keys \ {k})

\* C20: on the full path the keys of reward_breakdown are exactly the kinds
\* of the basis among DB and ENV_ASSERTION; DB maps to the state-match reward,
\* ENV_ASSERTION to the product of the assertion rewards; no other kind of the
\* basis has an entry; the reward is the product of the breakdown's values,
\* 1.0 when it is empty.
C20_BreakdownMatchesReward ==
    \A e \in Evals :
        Full(e) =>
            LET b == The(Result(e).reward_breakdown)
                basis == The(Result(e).reward_basis)
            IN /\ basis = Criteria(e).reward_basis
               /\ DOMAIN b = basis \cap {DB, ENV_ASSERTION}
               /\ DB \in DOMAIN b => b[DB] = The(Result(e).db_check).db_reward
               /\ ENV_ASSERTION \in DOMAIN b =>
                     b[ENV_ASSERTION] = Product(The(Result(e).env_assertions))
               /\ COMMUNICATE \notin DOMAIN b
               /\ Result(e).reward = ProductOver(b, DOMAIN b)
               /\ DOMAIN b = {} => Result(e).reward = 1

\* A basis of DB and COMMUNICATE with a state mismatch: one entry, DB -> 0,
\* and reward 0.
C20_Witness ==
    \E e \in Evals :
        /\ Full(e)
        /\ The(Result(e).reward_basis) = {DB, COMMUNICATE}
        /\ DOMAIN The(Result(e).reward_breakdown) = {DB}
        /\ The(Result(e).reward_breakdown)[DB] = 0
        /\ Result(e).reward = 0

\* The call of evaluation e as it was made: its arguments, no local set yet.
Call(e) == Frame(ev[e].task, ev[e].full_trajectory, ev[e].solo_mode, ev[e].kind)

\* C18: two calls whose steps interleave at will do not interfere: each one
\* that returns, returns the RewardInfo the same call returns when run alone,
\* and a step of a call changes neither the other call's state nor the
\* Logfire flag.
C18_NoInterference ==
    [][\A e \in Evals :
          /\ ev'[e].pc = "done" => ev'[e].result = RunAlone(Call(e)).result
          /\ ev'[e] # ev[e] =>
                /\ logfire_configured' = logfire_configured
                /\ \A x \in Evals \ {e} : ev'[x] = ev[x]]_vars

\* Both calls ran to the end, one scored 0 on a failed assertion, the other
\* 1 with ENV_ASSERTION in its basis, and a golden action was replayed.
C18_Witness ==
    /\ Full(1) /\ Full(2)
    /\ Result(1).reward = 0 /\ Len(ev[1].env_assertion_checks) = 1
    /\ Result(2).reward = 1 /\ ENV_ASSERTION \in Criteria(2).reward_basis
    /\ golden_actions(ev[2]) # << >>

\* The gold replay run on the inputs the claim lets it depend on: the seed,
\* the message history and the golden actions (no trajectory, no solo mode,
\* no predicted environment).
GoldReplayAlone(e) ==
    GoldReplay(SeedLocals(Frame(ev[e].task, << >>, FALSE, ev[e].kind)))

\* The predicted replay run on the seed and the full trajectory only (no
\* message history, no golden action, no gold environment).
PredictedReplayAlone(e) ==
    PredictedReplay([SeedLocals(Call(e)) EXCEPT
                        !.message_history = << >>,
                        !.task = [@ EXCEPT !.evaluation_criteria = None]])

\* C19: the two replays of a call have no data dependency: in whatever order
\* their steps are taken, the gold digests are those of the gold replay run
\* on seed, message history and golden actions alone, the predicted digests
\* those of the predicted replay run on seed and trajectory alone, and the
\* db_check and the result are those of the code's own order.
C19_ReplaysIndependent ==
    \A e \in Evals :
        /\ Compared(e) =>
              LET gold == The(GoldReplayAlone(e).gold_environment)
                  pred == The(PredictedReplayAlone(e).predicted_environment)
              IN /\ Hashes(e).agent_db_hash = GetDbHash(gold)
                 /\ Hashes(e).user_db_hash = GetUserDbHash(gold)
                 /\ Hashes(e).predicted_agent_db_hash = GetDbHash(pred)
                 /\ Hashes(e).predicted_user_db_hash = GetUserDbHash(pred)
                 /\ ev[e].db_check = RunAlone(Call(e)).db_check
        /\ Done(e) => ev[e].result = RunAlone(Call(e)).result

\* A finished call whose trajectory changed the state, whose gold environment
\* was fed a shorter history, and whose digests, read after both replays,
\* differ.
C19_Witness ==
    \E e \in Evals :
        /\ Full(e) /\ ~The(ev[e].db_check).db_match
        /\ Mutating(ev[e].full_trajectory)
        /\ TaskHistory(e) # ev[e].full_trajectory
        /\ DB \in Criteria(e).reward_basis

\* The criteria carry env_assertions and no golden action.
AssertionsOnly(e) ==
    /\ Started(e) /\ HasCriteria(e)
    /\ ~IsNone(Criteria(e).env_assertions)
    /\ OptLen(Criteria(e).actions) = 0

\* The gold environment as the seeding leaves it: constructed, given the
\* task's initialization data and actions and the initial message history.
SeededState(e) ==
    LET ist == ev[e].task.initial_state
    IN SetState(Construct(ev[e].kind, DefaultSoloMode),
                IF IsNone(ist) THEN None ELSE The(ist).initialization_data,
                IF IsNone(ist) THEN None ELSE The(ist).initialization_actions,
                TaskHistory(e))

\* C21: with env_assertions and no golden action the state comparison is
\* still made, against a gold environment that was only seeded (no call made
\* on it); with DB in the basis, a trajectory that leaves either digest
\* different from the seeded state is scored 0.0, whatever the assertions say.
C21_StateCheckWithoutActions ==
    \A e \in Evals :
        AssertionsOnly(e) =>
            /\ Done(e) => Full(e) /\ Compared(e) /\ ~IsNone(Result(e).db_check)
            /\ Compared(e) =>
                  /\ GoldCalls(ev[e]) = << >>
                  /\ The(ev[e].gold_environment).fed = TaskHistory(e)
                  /\ Hashes(e).agent_db_hash = GetDbHash(SeededState(e))
                  /\ Hashes(e).user_db_hash = GetUserDbHash(SeededState(e))
            /\ (/\ Done(e) /\ DB \in Criteria(e).reward_basis
                /\ \/ Hashes(e).predicted_agent_db_hash # GetDbHash(SeededState(e))
                   \/ Hashes(e).predicted_user_db_hash # GetUserDbHash(SeededState(e)))
               => /\ ~The(Result(e).db_check).db_match
                  /\ Result(e).reward = 0

\* Absent actions, one assertion, met, DB in the basis, a trajectory that
\* changed the state: reward 0.0.
C21_Witness ==
    \E e \in Evals :
        /\ AssertionsOnly(e) /\ Full(e)
        /\ IsNone(Criteria(e).actions)
        /\ DB \in Criteria(e).reward_basis
        /\ Len(The(Result(e).env_assertions)) = 1
        /\ The(Result(e).env_assertions)[1].met
        /\ Mutating(ev[e].full_trajectory)
        /\ Hashes(e).predicted_agent_db_hash # GetDbHash(SeededState(e))
        /\ Result(e).reward = 0

====
